---- MODULE Spec2Model ----
(***************************************************************************)
(* A model of rosm_pbf_reader (src/src/lib.rs): the blob frame reader      *)
(* read_blob, the block decoder BlockParser::parse_block with its          *)
(* decompressor, and the lazy readers DenseNodeReader, DenseTagReader,     *)
(* TagReader and DeltaValueReader.                                         *)
(*                                                                         *)
(* Conventions.  Option<T> is a sequence of length at most one: <<>> is    *)
(* None and <<v>> is Some(v).  Rust indices are 0-based and are kept so in *)
(* the state; TLA+ sequences are 1-based, hence the "+ 1" where an array   *)
(* is read.  A panic of the Rust code is an outcome of its own ("Panic").  *)
(***************************************************************************)
EXTENDS Integers, Sequences, FiniteSets, TLC

VARIABLES
    data,           \* DenseNodeReader: the pbf::DenseNodes group it borrows
    reader,         \* DenseNodeReader: the reader's own fields
    yielded,        \* DenseNodeReader: what next() has returned so far, in order
    pbf,            \* read_blob: the input stream and the position in it
    pulled,         \* read_blob: what the calls have returned so far, in order
    decompressor,   \* BlockParser<D>: the Decompressor D of the parsers
    block_buffer,   \* BlockParser: block_buffer of each parser
    parsed,         \* BlockParser: the last parse_block call of each parser
    values,         \* DeltaValueReader: the slice it was built from
    delta_reader,   \* DeltaValueReader: the reader's own fields
    delta_values,   \* DeltaValueReader: what next() has returned so far, in order
    string_table,   \* DenseTagReader: the pbf::StringTable it borrows
    key_value_indices, \* DenseTagReader: the index slice it was built from
    tag_reader,     \* DenseTagReader: the reader's own fields
    dense_tags,     \* DenseTagReader: what next() has returned so far, in order
    tr_args,        \* TagReader: the slices and the string table it borrows
    tr,             \* TagReader: the reader's own fields
    tr_tags         \* TagReader: what next() has returned so far, in order

denseVars == <<data, reader, yielded>>

blobVars == <<pbf, pulled>>

parseVars == <<decompressor, block_buffer, parsed>>

deltaVars == <<values, delta_reader, delta_values>>

tagVars == <<string_table, key_value_indices, tag_reader, dense_tags>>

vars == <<data, reader, yielded, pbf, pulled, decompressor, block_buffer, parsed,
          values, delta_reader, delta_values,
          string_table, key_value_indices, tag_reader, dense_tags,
          tr_args, tr, tr_tags>>

trVars == <<tr_args, tr, tr_tags>>

(***************************************************************************)
(* Generic helpers                                                         *)
(***************************************************************************)

None == <<>>

Some(v) == <<v>>

\* All sequences over S of length at most n.
SeqsUpTo(S, n) == UNION {[1..k -> S] : k \in 0..n}

\* slice.get(idx) with a 0-based index.
Get(s, idx) == IF idx >= 0 /\ idx < Len(s) THEN Some(s[idx + 1]) ELSE None

\* &s[from..to] with 0-based bounds, from <= to <= len.
Slice(s, from, to) == [k \in 1..(to - from) |-> s[from + k]]

\* The sum of the first k elements of s.
RECURSIVE SumTo(_, _)
SumTo(s, k) == IF k <= 0 THEN 0 ELSE SumTo(s, k - 1) + s[k]

(***************************************************************************)
(* Integer widths                                                          *)
(***************************************************************************)

\* i32::MAX.  The checker's integers are themselves 32 bits wide, so a value
\* that may exceed i32::MAX (a u32, a sum of i32 deltas) is kept as a pair
\* [hi, lo] standing for hi * 2^31 + lo with 0 <= lo <= I32Max: a u32 is
\* such a pair with hi in {0, 1}.
I32Max == 2147483647

Wide(n) == [hi |-> 0, lo |-> n]

\* w + d for a wide w and an i32 d (d > i32::MIN), with no intermediate
\* value outside the 32-bit range.
WideAdd(w, d) ==
    IF d >= 0
    THEN IF w.lo <= I32Max - d
         THEN [hi |-> w.hi, lo |-> w.lo + d]
         ELSE [hi |-> w.hi + 1, lo |-> (w.lo - (I32Max - d)) - 1]
    ELSE IF w.lo + d >= 0
         THEN [hi |-> w.hi, lo |-> w.lo + d]
         ELSE [hi |-> w.hi - 1, lo |-> ((w.lo + d) + I32Max) + 1]

\* The wide sum of the first k elements of s.
RECURSIVE WideSumTo(_, _)
WideSumTo(s, k) == IF k <= 0 THEN Wide(0) ELSE WideAdd(WideSumTo(s, k - 1), s[k])

\* u32::checked_add_signed: None when the sum is not a u32.
checked_add_signed_as_i32(u, d) ==
    LET sum == WideAdd(u, d) IN
    IF sum.hi # 0 THEN None ELSE Some(sum)

checked_add_signed(u, d) ==
    LET sum == WideAdd(u, d) IN
    IF sum.hi < 0 \/ sum.hi > 1 THEN None ELSE Some(sum)

(***************************************************************************)
(* DenseNodeReader                                                         *)
(***************************************************************************)

\* DeltaCodedValues::default()
DeltaCodedValues_default ==
    [id |-> 0, lat |-> 0, lon |-> 0, timestamp |-> 0, changeset |-> 0,
     uid |-> 0, user_sid |-> Wide(0)]

NoReader ==
    [kind |-> "unbuilt", data_idx |-> 0, key_value_idx |-> 0,
     current |-> DeltaCodedValues_default]

\* DenseNodeReader::new: the length check, then the reader at its start.
DenseNodeReader_new_checks_lat_only(d) ==
    IF Len(d.lat) # Len(d.id)
    THEN [NoReader EXCEPT !.kind = "LogicError"]
    ELSE [kind |-> "Ok", data_idx |-> 0, key_value_idx |-> 0,
          current |-> DeltaCodedValues_default]

DenseNodeReader_new(d) ==
    IF Len(d.lat) # Len(d.id) \/ Len(d.lon) # Len(d.id)
    THEN [NoReader EXCEPT !.kind = "LogicError"]
    ELSE [kind |-> "Ok", data_idx |-> 0, key_value_idx |-> 0,
          current |-> DeltaCodedValues_default]

\* data_it.next(): the zip of the id, lat and lon iterators, enumerated.
\* Zip stops at the shortest of the three.
data_it_next(d, r) ==
    IF r.data_idx < Len(d.id) /\ r.data_idx < Len(d.lat) /\ r.data_idx < Len(d.lon)
    THEN Some([data_idx |-> r.data_idx,
               id_delta |-> d.id[r.data_idx + 1],
               lat_delta |-> d.lat[r.data_idx + 1],
               lon_delta |-> d.lon[r.data_idx + 1]])
    ELSE None

\* delta_decode: the accumulator after the step and the value yielded.
delta_decode(current, delta) ==
    IF delta # None
    THEN [current |-> current + delta[1], value |-> Some(current + delta[1])]
    ELSE [current |-> current, value |-> None]

user_sid_step_resets(dense_info, data_idx, current) ==
    LET user_sid_delta == Get(dense_info.user_sid, data_idx) IN
    IF user_sid_delta = None
    THEN [ok |-> TRUE, current |-> current, value |-> None]
    ELSE LET sum == checked_add_signed(current.user_sid, user_sid_delta[1]) IN
         IF sum # None
         THEN [ok |-> TRUE, current |-> [current EXCEPT !.user_sid = sum[1]],
               value |-> sum]
         ELSE [ok |-> FALSE, current |-> [current EXCEPT !.user_sid = Wide(0)],
               value |-> None]

\* The user_sid match of next(): ok = FALSE is the early return with the error.
user_sid_step(dense_info, data_idx, current) ==
    LET user_sid_delta == Get(dense_info.user_sid, data_idx) IN
    IF user_sid_delta = None
    THEN [ok |-> TRUE, current |-> current, value |-> None]
    ELSE LET sum == checked_add_signed(current.user_sid, user_sid_delta[1]) IN
         IF sum # None
         THEN [ok |-> TRUE, current |-> [current EXCEPT !.user_sid = sum[1]],
               value |-> sum]
         ELSE [ok |-> FALSE, current |-> current, value |-> None]

\* The pbf::Info built once the user_sid step has succeeded.
decode_info_version_defaults(dense_info, data_idx, current, user_sid) ==
    LET ts == delta_decode(current.timestamp, Get(dense_info.timestamp, data_idx))
        cs == delta_decode(current.changeset, Get(dense_info.changeset, data_idx))
        ui == delta_decode(current.uid, Get(dense_info.uid, data_idx))
    IN [current |-> [current EXCEPT !.timestamp = ts.current,
                                    !.changeset = cs.current,
                                    !.uid = ui.current],
        info |-> [version |-> IF Get(dense_info.version, data_idx) = None THEN Some(0)
                              ELSE Get(dense_info.version, data_idx),
                  timestamp |-> ts.value,
                  changeset |-> cs.value,
                  uid |-> ui.value,
                  user_sid |-> user_sid,
                  visible |-> Get(dense_info.visible, data_idx)]]

decode_info(dense_info, data_idx, current, user_sid) ==
    LET ts == delta_decode(current.timestamp, Get(dense_info.timestamp, data_idx))
        cs == delta_decode(current.changeset, Get(dense_info.changeset, data_idx))
        ui == delta_decode(current.uid, Get(dense_info.uid, data_idx))
    IN [current |-> [current EXCEPT !.timestamp = ts.current,
                                    !.changeset = cs.current,
                                    !.uid = ui.current],
        info |-> [version |-> Get(dense_info.version, data_idx),
                  timestamp |-> ts.value,
                  changeset |-> cs.value,
                  uid |-> ui.value,
                  user_sid |-> user_sid,
                  visible |-> Get(dense_info.visible, data_idx)]]

\* The offset (from key_value_idx) of the first zero found by
\* keys_vals[key_value_idx..].iter().enumerate().step_by(2).find(..).
RECURSIVE find_zero(_, _, _)
find_zero(keys_vals, key_value_idx, offset) ==
    IF key_value_idx + offset >= Len(keys_vals) THEN None
    ELSE IF keys_vals[key_value_idx + offset + 1] = 0 THEN Some(offset)
    ELSE find_zero(keys_vals, key_value_idx, offset + 2)

\* The tag slice of one node and the cursor after it.  Slicing
\* keys_vals[key_value_idx..] panics when key_value_idx > len.
key_value_slice_keeps_separator(keys_vals, key_value_idx) ==
    IF keys_vals = <<>>
    THEN [panic |-> FALSE, key_value_idx |-> key_value_idx, slice |-> <<>>]
    ELSE IF key_value_idx > Len(keys_vals)
    THEN [panic |-> TRUE, key_value_idx |-> key_value_idx, slice |-> <<>>]
    ELSE LET next_zero == find_zero(keys_vals, key_value_idx, 0)
             next_zero_idx == IF next_zero # None THEN key_value_idx + next_zero[1]
                              ELSE Len(keys_vals)
         IN [panic |-> FALSE,
             key_value_idx |-> next_zero_idx,
             slice |-> Slice(keys_vals, key_value_idx, next_zero_idx)]

key_value_slice(keys_vals, key_value_idx) ==
    IF keys_vals = <<>>
    THEN [panic |-> FALSE, key_value_idx |-> key_value_idx, slice |-> <<>>]
    ELSE IF key_value_idx > Len(keys_vals)
    THEN [panic |-> TRUE, key_value_idx |-> key_value_idx, slice |-> <<>>]
    ELSE LET next_zero == find_zero(keys_vals, key_value_idx, 0)
             next_zero_idx == IF next_zero # None THEN key_value_idx + next_zero[1]
                              ELSE Len(keys_vals)
         IN [panic |-> FALSE,
             key_value_idx |-> next_zero_idx + 1,
             slice |-> Slice(keys_vals, key_value_idx, next_zero_idx)]

ItemNone == [kind |-> "None", node |-> <<>>]

ItemErr == [kind |-> "LogicError", node |-> <<>>]

ItemPanic == [kind |-> "Panic", node |-> <<>>]

ItemOk(node) == [kind |-> "Ok", node |-> <<node>>]

\* DenseNodeReader::next: the reader after the call and the item returned.
DenseNodeReader_next(d, r) ==
    LET step == data_it_next(d, r) IN
    IF step = None THEN [reader |-> r, item |-> ItemNone]
    ELSE
    LET data_idx == step[1].data_idx
        c1 == [r.current EXCEPT !.id = @ + step[1].id_delta,
                                !.lat = @ + step[1].lat_delta,
                                !.lon = @ + step[1].lon_delta]
        r1 == [r EXCEPT !.data_idx = @ + 1, !.current = c1]
        sid == IF d.denseinfo # None
               THEN user_sid_step(d.denseinfo[1], data_idx, c1)
               ELSE [ok |-> TRUE, current |-> c1, value |-> None]
    IN
    IF ~sid.ok THEN [reader |-> [r1 EXCEPT !.current = sid.current], item |-> ItemErr]
    ELSE
    LET dec == IF d.denseinfo # None
               THEN decode_info(d.denseinfo[1], data_idx, sid.current, sid.value)
               ELSE [current |-> sid.current, info |-> <<>>]
        info == IF d.denseinfo # None THEN Some(dec.info) ELSE None
        kv == key_value_slice(d.keys_vals, r.key_value_idx)
        r2 == [r1 EXCEPT !.current = dec.current]
    IN
    IF kv.panic THEN [reader |-> [r2 EXCEPT !.kind = "Panicked"], item |-> ItemPanic]
    ELSE [reader |-> [r2 EXCEPT !.key_value_idx = kv.key_value_idx],
          item |-> ItemOk([id |-> dec.current.id,
                           lat |-> dec.current.lat,
                           lon |-> dec.current.lon,
                           info |-> info,
                           key_value_indices |-> kv.slice])]

(***************************************************************************)
(* DenseNodeReader: the groups it is run on                                *)
(***************************************************************************)

\* Bounds of the model.
MaxNodes == 3

MaxKv == 5

ExtraCalls == 2

\* (id, lat, lon) deltas of one node; the pairs of the repository's test.
NodeDeltas == {<<2, -3, 3>>, <<-1, 1, -1>>}

NodeTemplate(n) == [k \in 1..n |-> IF k % 2 = 1 THEN <<2, -3, 3>> ELSE <<-1, 1, -1>>]

KvIdx == {0, 1, 2}

KvSample == <<1, 2, 0, 0, 2, 1, 0>>

SidDeltas == {-2, 1, I32Max}

SidTemplate(n) == [k \in 1..n |-> IF k = 1 THEN I32Max ELSE 1]

\* The metadata arrays of the repository's test, continued periodically.
VersionTemplate(n) == [k \in 1..n |-> 2 * k]

TimestampTemplate(n) == [k \in 1..n |-> IF k = 1 THEN 2 ELSE 1]

ChangesetTemplate(n) == [k \in 1..n |-> IF k % 2 = 1 THEN 2 ELSE -1]

UidTemplate(n) == [k \in 1..n |-> IF k % 2 = 1 THEN 5 ELSE -1]

VisibleTemplate(n) == [k \in 1..n |-> k % 2 = 1]

DenseInfo(user_sid, nv, nt, nc, nu, nb) ==
    [user_sid |-> user_sid, version |-> VersionTemplate(nv),
     timestamp |-> TimestampTemplate(nt), changeset |-> ChangesetTemplate(nc),
     uid |-> UidTemplate(nu), visible |-> VisibleTemplate(nb)]

\* A group whose lat and lon arrays have lengths of their own (0-filled
\* past the node list), as in the test invalid_required_data_lengths.
DenseNodes(nodes, lat_len, lon_len, keys_vals, denseinfo) ==
    [id |-> [k \in 1..Len(nodes) |-> nodes[k][1]],
     lat |-> [k \in 1..lat_len |-> IF k <= Len(nodes) THEN nodes[k][2] ELSE 0],
     lon |-> [k \in 1..lon_len |-> IF k <= Len(nodes) THEN nodes[k][3] ELSE 0],
     keys_vals |-> keys_vals,
     denseinfo |-> denseinfo]

\* Any id/lat/lon lengths, no tags, no metadata.
LengthInputs ==
    {DenseNodes(nodes, lat_len, lon_len, <<>>, None) :
        nodes \in SeqsUpTo(NodeDeltas, MaxNodes),
        lat_len \in 0..MaxNodes, lon_len \in 0..MaxNodes}

\* Any keys_vals array, well formed or not, no metadata.
TagInputs ==
    {DenseNodes(NodeTemplate(n), n, n, keys_vals, None) :
        n \in 0..MaxNodes, keys_vals \in SeqsUpTo(KvIdx, MaxKv)}

\* Any node deltas and user_sid deltas, the other metadata in full.
SidInputs ==
    UNION {
        {DenseNodes(nodes, Len(nodes), Len(nodes), keys_vals,
                    Some(DenseInfo(user_sid, Len(nodes), Len(nodes), Len(nodes),
                                   Len(nodes), Len(nodes)))) :
            user_sid \in SeqsUpTo(SidDeltas, Len(nodes)),
            keys_vals \in {<<>>, KvSample}} :
        nodes \in SeqsUpTo(NodeDeltas, MaxNodes)}

\* The lengths tried for a metadata array of a group of n nodes: empty, one
\* short, full.
MetaLens(n) == {0, n - 1, n} \cap (0..n)

\* Metadata arrays each of a length of its own.
MetaInputs ==
    UNION {
        {DenseNodes(NodeTemplate(n), n, n, <<>>,
                    Some(DenseInfo(SidTemplate(ns), nv, nt, nc, nu, nb))) :
            ns \in MetaLens(n), nv \in MetaLens(n), nt \in MetaLens(n),
            nc \in MetaLens(n), nu \in MetaLens(n), nb \in MetaLens(n)} :
        n \in 0..MaxNodes}

DenseInputs == LengthInputs \cup TagInputs \cup SidInputs \cup MetaInputs

NoDenseNodes == DenseNodes(<<>>, 0, 0, <<>>, None)

(***************************************************************************)
(* DenseNodeReader: actions                                                *)
(***************************************************************************)

InitDense ==
    /\ data = NoDenseNodes
    /\ reader = NoReader
    /\ yielded = <<>>

\* DenseNodeReader::new(&data)
DenseNew ==
    /\ reader.kind = "unbuilt"
    /\ \E d \in DenseInputs :
        /\ data' = d
        /\ reader' = DenseNodeReader_new(d)
    /\ yielded' = <<>>
    /\ UNCHANGED <<blobVars, parseVars, deltaVars, tagVars, trVars>>

\* reader.next(), up to ExtraCalls calls past the end of the group
DenseNext ==
    /\ reader.kind = "Ok"
    /\ Len(yielded) < Len(data.id) + ExtraCalls
    /\ LET res == DenseNodeReader_next(data, reader) IN
        /\ reader' = res.reader
        /\ yielded' = Append(yielded, res.item)
    /\ UNCHANGED <<data, blobVars, parseVars, deltaVars, tagVars, trVars>>

NextDense == DenseNew \/ DenseNext

(***************************************************************************)
(* read_blob                                                               *)
(*                                                                         *)
(* A stream is described by the way its bytes parse: a sequence of frames, *)
(* each a 4-byte length prefix, the header message the next N bytes decode *)
(* to, and datasize payload bytes; by the number len of bytes it delivers; *)
(* and by what a read past them meets: the end of the stream ("eof") or a  *)
(* failure of the underlying reader ("error").                             *)
(***************************************************************************)

\* i32::from_be_bytes
i32_from_be_bytes(b) ==
    IF b[1] >= 128
    THEN (b[1] - 256) * 16777216 + b[2] * 65536 + b[3] * 256 + b[4]
    ELSE b[1] * 16777216 + b[2] * 65536 + b[3] * 256 + b[4]

BlockType_from_header_only(value) ==
    CASE value = "OSMHeader" -> "Header"
      [] OTHER -> "Unknown"

\* BlockType::from(&str)
BlockType_from(value) ==
    CASE value = "OSMHeader" -> "Header"
      [] value = "OSMData" -> "Primitive"
      [] OTHER -> "Unknown"

\* The bounds of the two range checks of read_blob.
MaxBlobHeaderSize == 64 * 1024

MaxBlobSize == 32 * 1024 * 1024

\* BlobHeader::decode of the header bytes of a frame: the message they
\* encode, or a decode error.  No bytes at all decode to the default message.
BlobHeader_default == [malformed |-> FALSE, type |-> "", datasize |-> 0]

BlobHeader_decode(frame, blob_header_size) ==
    LET header == IF blob_header_size = 0 THEN BlobHeader_default ELSE frame.header IN
    IF header.malformed THEN [ok |-> FALSE, header |-> header]
    ELSE [ok |-> TRUE, header |-> header]

\* Read::read_exact of n bytes at the stream's position: it consumes them,
\* or consumes what is left and fails.
read_exact(input, n) ==
    IF input.pos + n <= input.len
    THEN [ok |-> TRUE, error |-> "", pos |-> input.pos + n]
    ELSE [ok |-> FALSE,
          error |-> IF input.end = "eof" THEN "UnexpectedEof" ELSE "Other",
          pos |-> input.len]

BlobNone == [kind |-> "None", error |-> "", block |-> <<>>]

BlobErr(kind, error) == [kind |-> kind, error |-> error, block |-> <<>>]

BlobOk(raw_block) == [kind |-> "Ok", error |-> "", block |-> <<raw_block>>]

\* The failure of the first read_exact (the length prefix).
prefix_read_failed(error) ==
    IF error = "UnexpectedEof" THEN BlobNone ELSE BlobErr("IoError", error)

\* The failure of the read_exact of the header or of the payload.
read_failed_eof_is_end(error) ==
    IF error = "UnexpectedEof" THEN BlobNone ELSE BlobErr("IoError", error)

read_failed(error) == BlobErr("IoError", error)

\* (0..64 * 1024).contains(&blob_header_size)
blob_header_size_in_range_inclusive(blob_header_size) ==
    blob_header_size >= 0 /\ blob_header_size <= MaxBlobHeaderSize

blob_header_size_in_range(blob_header_size) ==
    blob_header_size >= 0 /\ blob_header_size < MaxBlobHeaderSize

\* (0..32 * 1024 * 1024).contains(&blob_size)
blob_size_in_range_ignores_sign(blob_size) == blob_size < MaxBlobSize

blob_size_in_range(blob_size) == blob_size >= 0 /\ blob_size < MaxBlobSize

\* blob.resize_with(blob_size as usize, Default::default): the length of the
\* buffer the payload is read into, from the length it had for the header.
blob_resize_with_extends(blob_len, blob_size) == blob_len + blob_size

blob_resize_with(blob_len, blob_size) == blob_size

\* read_blob on a stream positioned at the start of frame number
\* input.frame + 1: the stream after the call and the value returned.  The
\* payload bytes of the RawBlock are named by their place in the stream.
read_blob(input) ==
    LET r1 == read_exact(input, 4)
        in1 == [input EXCEPT !.pos = r1.pos, !.sync = FALSE]
    IN
    IF ~r1.ok THEN [pbf |-> in1, result |-> prefix_read_failed(r1.error)]
    ELSE
    LET frame == input.frames[input.frame + 1]
        blob_header_size == i32_from_be_bytes(frame.size)
    IN
    IF ~blob_header_size_in_range(blob_header_size)
    THEN [pbf |-> in1, result |-> BlobErr("InvalidBlobHeader", "")]
    ELSE
    LET r2 == read_exact(in1, blob_header_size)
        in2 == [in1 EXCEPT !.pos = r2.pos]
    IN
    IF ~r2.ok THEN [pbf |-> in2, result |-> read_failed(r2.error)]
    ELSE
    LET blob_header == BlobHeader_decode(frame, blob_header_size) IN
    IF ~blob_header.ok THEN [pbf |-> in2, result |-> BlobErr("PbfParseError", "")]
    ELSE
    LET block_type == BlockType_from(blob_header.header.type)
        blob_size == blob_header.header.datasize
    IN
    IF ~blob_size_in_range(blob_size)
    THEN [pbf |-> in2, result |-> BlobErr("InvalidBlobData", "")]
    ELSE
    LET r3 == read_exact(in2, blob_resize_with(blob_header_size, blob_size))
        in3 == [in2 EXCEPT !.pos = r3.pos]
    IN
    IF ~r3.ok THEN [pbf |-> in3, result |-> read_failed(r3.error)]
    ELSE [pbf |-> [in3 EXCEPT !.frame = @ + 1, !.sync = TRUE],
          result |-> BlobOk([type |-> block_type,
                             data |-> [from |-> in2.pos, to |-> in3.pos]])]

(***************************************************************************)
(* read_blob: the streams it is run on                                     *)
(***************************************************************************)

MaxFrames == 2

SizeBytes(n) ==
    CASE n = 0 -> <<0, 0, 0, 0>>
      [] n = 2 -> <<0, 0, 0, 2>>
      [] n = 65535 -> <<0, 0, 255, 255>>
      [] n = 65536 -> <<0, 1, 0, 0>>
      [] n = -1 -> <<255, 255, 255, 255>>

Header(type, datasize) == [malformed |-> FALSE, type |-> type, datasize |-> datasize]

Frame(n, header) == [size |-> SizeBytes(n), header |-> header]

\* Frames read_blob accepts.
GoodFrames ==
    {Frame(0, BlobHeader_default)} \cup
    {Frame(2, Header(type, datasize)) :
        type \in {"OSMHeader", "OSMData", "OSMOther"}, datasize \in {0, 3}}

\* Frames at the bounds of the two range checks, and a header that does not
\* decode.
EdgeFrames ==
    {Frame(65536, Header("OSMData", 3)),
     Frame(-1, Header("OSMData", 3)),
     Frame(65535, Header("OSMData", 3)),
     Frame(2, [malformed |-> TRUE, type |-> "", datasize |-> 0]),
     Frame(2, Header("OSMData", -1)),
     Frame(2, Header("OSMData", 33554432)),
     Frame(2, Header("OSMData", 33554431))}

\* The number of bytes of the stream that read_blob interprets as the frame.
FrameBytes(frame) ==
    LET n == i32_from_be_bytes(frame.size)
        header == IF n = 0 THEN BlobHeader_default ELSE frame.header
    IN IF ~(n >= 0 /\ n < MaxBlobHeaderSize) THEN 4
       ELSE IF header.malformed \/ ~(header.datasize >= 0 /\ header.datasize < MaxBlobSize)
       THEN 4 + n
       ELSE 4 + n + header.datasize

RECURSIVE StreamBytes(_, _)
StreamBytes(frames, k) ==
    IF k <= 0 THEN 0 ELSE StreamBytes(frames, k - 1) + FrameBytes(frames[k])

\* Where a stream may end: inside its last frame (in the prefix, after it,
\* in or after the header, in or after the payload).
Cuts(frames) ==
    IF frames = <<>> THEN {0}
    ELSE LET start == StreamBytes(frames, Len(frames) - 1)
             total == StreamBytes(frames, Len(frames))
             last == frames[Len(frames)]
             n == i32_from_be_bytes(last.size)
         IN {c \in {start + 1, start + 2, start + 3, start + 4,
                     start + 3 + n, start + 4 + n, total - 1, total} :
                c > start /\ c <= total}

\* Streams of accepted frames, the last frame any frame.
FrameLists ==
    {<<>>} \cup
    UNION {{Append(good, last) : last \in GoodFrames \cup EdgeFrames} :
              good \in SeqsUpTo(GoodFrames, MaxFrames - 1)}

Streams ==
    UNION {{[frames |-> frames, len |-> len, end |-> end, pos |-> 0, frame |-> 0,
             sync |-> TRUE] :
               len \in Cuts(frames), end \in {"eof", "error"}} :
           frames \in FrameLists}

(***************************************************************************)
(* read_blob: actions                                                      *)
(***************************************************************************)

NoStream ==
    [frames |-> <<>>, len |-> 0, end |-> "unopened", pos |-> 0, frame |-> 0,
     sync |-> TRUE]

InitBlob ==
    /\ pbf = NoStream
    /\ pulled = <<>>

\* File::open: the caller's stream.
OpenStream ==
    /\ pbf.end = "unopened"
    /\ \E input \in Streams : pbf' = input
    /\ pulled' = <<>>
    /\ UNCHANGED <<denseVars, parseVars, deltaVars, tagVars, trVars>>

\* read_blob(&mut pbf).  After an error that leaves the position inside a
\* frame the bytes that follow are no frame, and the caller stops; it may
\* call again once the stream is exhausted.
ReadBlob ==
    /\ pbf.end # "unopened"
    /\ pbf.sync \/ pbf.pos = pbf.len
    /\ Len(pulled) < Len(pbf.frames) + ExtraCalls
    /\ LET res == read_blob(pbf) IN
        /\ pbf' = res.pbf
        /\ pulled' = Append(pulled, [at |-> pbf.pos, frame |-> pbf.frame + 1,
                                     result |-> res.result])
    /\ UNCHANGED <<denseVars, parseVars, deltaVars, tagVars, trVars>>

NextBlob == OpenStream \/ ReadBlob


(***************************************************************************)
(* Decompressor and BlockParser                                            *)
(*                                                                         *)
(* The payload of a RawBlock is described by the pbf::Blob it decodes to   *)
(* (or by its not decoding), a compressed payload by the bytes it          *)
(* decompresses to, by whether the compressed stream then ends or is       *)
(* corrupt, and by how many of those bytes the decoder delivers before it  *)
(* meets the corruption (clean; the length of the bytes for a sound        *)
(* stream).  Bytes are 1 and 2; 0 is the byte resize_with fills with.      *)
(***************************************************************************)

\* Vec::resize_with(new_len, Default::default)
resize_with_keeps_longer(buffer, new_len) ==
    IF new_len <= Len(buffer) THEN buffer
    ELSE buffer \o [k \in 1..(new_len - Len(buffer)) |-> 0]

resize_with(buffer, new_len) ==
    IF new_len <= Len(buffer) THEN SubSeq(buffer, 1, new_len)
    ELSE buffer \o [k \in 1..(new_len - Len(buffer)) |-> 0]

\* Vec::extend_from_slice
extend_from_slice(buffer, other) == buffer \o other

\* The bytes a read of the decoder writes at the start of output.
zlib_written(input, output) ==
    IF Len(input.plain) >= Len(output)
    THEN SubSeq(input.plain, 1, Len(output))
    ELSE input.plain \o SubSeq(output, Len(input.plain) + 1, Len(output))

\* ZlibDecoder::new(input).read_exact(output).  An empty output is filled
\* without a read.  The decoder inflates its input a buffer at a time and
\* copies what fits to output: the reads of the first input.clean bytes are
\* made before the decoder meets the corruption of a corrupt stream (none
\* when the stream is inflated whole on the first read); a longer read
\* meets it and fails after the copy.  A sound stream fills output, or ends
\* before it is full and the read fails.
zlib_read_exact(input, output) ==
    IF output = <<>>
    THEN [ok |-> TRUE, error |-> "", output |-> output]
    ELSE IF input.corrupt /\ Len(output) > input.clean
    THEN [ok |-> FALSE, error |-> "InternalError(Corrupt)",
          output |-> zlib_written(input, output)]
    ELSE IF Len(input.plain) >= Len(output)
    THEN [ok |-> TRUE, error |-> "", output |-> zlib_written(input, output)]
    ELSE [ok |-> FALSE, error |-> "InternalError(UnexpectedEof)",
          output |-> zlib_written(input, output)]

\* DefaultDecompressor::decompress, with and without the default feature.
decompress_any_method(D, method, input, output) ==
    IF D = "DefaultDecompressor"
    THEN zlib_read_exact(input, output)
    ELSE [ok |-> FALSE, error |-> "UnsupportedCompression", output |-> output]

decompress(D, method, input, output) ==
    IF D = "DefaultDecompressor" /\ method = "Zlib"
    THEN zlib_read_exact(input, output)
    ELSE [ok |-> FALSE, error |-> "UnsupportedCompression", output |-> output]

\* pbf::Blob::decode of the bytes of a RawBlock.
Blob_decode(raw_data) ==
    IF raw_data.malformed THEN [ok |-> FALSE, blob |-> raw_data]
    ELSE [ok |-> TRUE, blob |-> raw_data]

\* pbf::HeaderBlock::decode and pbf::PrimitiveBlock::decode: the message is
\* a function of the bytes; bytes that start with the fill byte (a field
\* key of 0) are no message.
Message_decode(bytes) ==
    IF bytes # <<>> /\ bytes[1] = 0 THEN [ok |-> FALSE, message |-> <<>>]
    ELSE [ok |-> TRUE, message |-> bytes]

\* The CompressionMethod passed for a compressed payload variant.
method_of(variant) ==
    CASE variant = "ZlibData" -> "Zlib"
      [] variant = "Lz4Data" -> "Lz4"
      [] variant = "LzmaData" -> "Lzma"
      [] variant = "ZstdData" -> "Zstd"

ParseErr(kind, error) == [kind |-> kind, error |-> error, content |-> <<>>]

ParseOk(kind, content) == [kind |-> kind, error |-> "", content |-> content]

\* The last match of parse_block: the block decoded from the buffer.
decode_block(type, buffer) ==
    CASE type = "Header" ->
            IF Message_decode(buffer).ok
            THEN ParseOk("Header", Message_decode(buffer).message)
            ELSE ParseErr("PbfParseError", "")
      [] type = "Primitive" ->
            IF Message_decode(buffer).ok
            THEN ParseOk("Primitive", Message_decode(buffer).message)
            ELSE ParseErr("PbfParseError", "")
      [] type = "Unknown" -> ParseOk("Unknown", buffer)

\* The raw arm of the dispatch.
dispatch_raw(buffer, raw_data) == extend_from_slice(buffer, raw_data)

\* What parse_block did with the decompressor: no call, or the call made.
NoCall == <<>>

Call(method, input, output_len, dec) ==
    <<[method |-> method, input |-> input, output_len |-> output_len,
       ok |-> dec.ok, error |-> dec.error]>>

\* BlockParser::parse_block: the buffer after the call, the value returned
\* and the call made to the decompressor.  A negative raw_size, cast to
\* usize, is a length no Vec can have: resize_with panics ("capacity
\* overflow") with the buffer untouched.
parse_block(D, buffer, raw_block) ==
    LET decoded == Blob_decode(raw_block.data)
        blob == decoded.blob
    IN
    IF ~decoded.ok
    THEN [buffer |-> buffer, result |-> ParseErr("PbfParseError", ""), call |-> NoCall]
    ELSE IF blob.raw_size # None /\ blob.raw_size[1] < 0
    THEN [buffer |-> buffer, result |-> ParseErr("Panic", "capacity overflow"),
          call |-> NoCall]
    ELSE
    LET buffer1 == IF blob.raw_size # None
                   THEN resize_with(buffer, blob.raw_size[1])
                   ELSE buffer
    IN
    IF blob.data = None
    THEN [buffer |-> buffer1, result |-> ParseErr("InvalidBlobData", ""), call |-> NoCall]
    ELSE
    LET blob_data == blob.data[1] IN
    IF blob_data.variant = "ObsoleteBzip2Data"
    THEN [buffer |-> buffer1, result |-> ParseErr("InvalidBlobData", ""), call |-> NoCall]
    ELSE IF blob_data.variant = "Raw"
    THEN LET buffer2 == dispatch_raw(buffer1, blob_data.bytes) IN
         [buffer |-> buffer2, result |-> decode_block(raw_block.type, buffer2),
          call |-> NoCall]
    ELSE
    LET method == method_of(blob_data.variant)
        dec == decompress(D, method, blob_data.input, buffer1)
        call == Call(method, blob_data.input, Len(buffer1), dec)
    IN
    IF ~dec.ok
    THEN [buffer |-> dec.output, result |-> ParseErr("DecompressionError", dec.error),
          call |-> call]
    ELSE [buffer |-> dec.output, result |-> decode_block(raw_block.type, dec.output),
          call |-> call]

(***************************************************************************)
(* BlockParser: the blocks it is run on                                    *)
(***************************************************************************)

MaxBuffer == 3

MaxPayload == 2

Parsers == {1, 2}

\* The payloads: the bytes 1, 2, 1, 2, ... cut at each length.
Payload(n) == [k \in 1..n |-> IF k % 2 = 1 THEN 1 ELSE 2]

Payloads == {Payload(n) : n \in 0..MaxPayload}

Sound(plain) == [plain |-> plain, corrupt |-> FALSE, clean |-> Len(plain)]

Compressed ==
    {Sound(plain) : plain \in Payloads}
    \cup UNION {{[plain |-> plain, corrupt |-> TRUE, clean |-> clean] :
                    clean \in 0..Len(plain)} : plain \in Payloads}

NoInput == Sound(<<>>)

BlobData ==
    {[variant |-> "Raw", bytes |-> bytes, input |-> NoInput] : bytes \in Payloads}
    \cup {[variant |-> "ZlibData", bytes |-> <<>>, input |-> input] : input \in Compressed}
    \cup {[variant |-> variant, bytes |-> <<>>, input |-> Sound(<<1>>)] :
              variant \in {"Lz4Data", "LzmaData", "ZstdData", "ObsoleteBzip2Data"}}

RawSizes == {None} \cup {Some(n) : n \in -1..MaxPayload}

Blobs ==
    {[malformed |-> TRUE, raw_size |-> None, data |-> None]}
    \cup {[malformed |-> FALSE, raw_size |-> raw_size, data |-> blob_data] :
              raw_size \in RawSizes,
              blob_data \in {None} \cup {Some(b) : b \in BlobData}}

RawBlocks ==
    {[type |-> type, data |-> blob] :
        type \in {"Header", "Primitive", "Unknown"}, blob \in Blobs}

\* The blocks the two-parser runs decode: raw payloads of unknown type.
TwoParserBlocks ==
    {b \in RawBlocks :
        /\ b.type = "Unknown"
        /\ ~b.data.malformed
        /\ b.data.data # None
        /\ b.data.data[1].variant = "Raw"
        /\ b.data.raw_size \in {None, Some(1)}}

Decompressors == {"DefaultDecompressor", "DefaultDecompressorNoFeature"}

(***************************************************************************)
(* BlockParser: actions                                                    *)
(***************************************************************************)

NotParsed ==
    [calls |-> 0, raw_block |-> [type |-> "Unknown",
                                 data |-> [malformed |-> TRUE, raw_size |-> None,
                                           data |-> None]],
     result |-> ParseErr("none", ""), call |-> NoCall, buffer_len |-> 0,
     frame |-> 0]

InitParse ==
    /\ decompressor = "unchosen"
    /\ block_buffer = [p \in Parsers |-> <<>>]
    /\ parsed = [p \in Parsers |-> NotParsed]

\* BlockParser::<D>::new(), for each parser
NewParser ==
    /\ decompressor = "unchosen"
    /\ decompressor' \in Decompressors
    /\ block_buffer' = [p \in Parsers |-> <<>>]
    /\ UNCHANGED <<parsed, denseVars, blobVars, deltaVars, tagVars, trVars>>

\* parser.parse_block(raw_block), recorded with the decompressor call it
\* made and the length the buffer had before it.  A parser that has
\* panicked is gone.
ParseFrame(p, raw_block, frame) ==
    /\ decompressor # "unchosen"
    /\ parsed[p].result.kind # "Panic"
    /\ LET res == parse_block(decompressor, block_buffer[p], raw_block) IN
        /\ Len(res.buffer) <= MaxBuffer
        /\ block_buffer' = [block_buffer EXCEPT ![p] = res.buffer]
        /\ parsed' = [parsed EXCEPT ![p] = [calls |-> 1, raw_block |-> raw_block,
                                            result |-> res.result,
                                            call |-> res.call,
                                            buffer_len |-> Len(block_buffer[p]),
                                            frame |-> frame]]
    /\ UNCHANGED <<decompressor, denseVars, blobVars, deltaVars, tagVars, trVars>>

\* parser.parse_block(raw_block) on a block the caller built.
ParseBlock(p, raw_block) == ParseFrame(p, raw_block, 0)

ParseOne == \E raw_block \in RawBlocks : ParseBlock(1, raw_block)

ParseEither == \E p \in Parsers, raw_block \in TwoParserBlocks : ParseBlock(p, raw_block)

NextParse == NewParser \/ ParseOne

NextTwoParsers == NewParser \/ ParseEither

(***************************************************************************)
(* read_blob and parse_block together: a RawBlock pulled, then parsed      *)
(***************************************************************************)

\* Whole streams of frames read_blob accepts, each with a three-byte blob or
\* (the frame with no header bytes) none.
PipelineFrames ==
    {Frame(0, BlobHeader_default)} \cup
    {Frame(2, Header(type, 3)) : type \in {"OSMHeader", "OSMData", "OSMOther"}}

WholeStreams ==
    {[frames |-> frames, len |-> StreamBytes(frames, Len(frames)), end |-> "eof",
      pos |-> 0, frame |-> 0, sync |-> TRUE] :
        frames \in SeqsUpTo(PipelineFrames, MaxFrames) \ {<<>>}}

\* The Blobs the bytes of a pulled RawBlock may hold.  No bytes hold the
\* default Blob.  Three bytes hold one field or no message: a raw payload
\* of one byte or none, a compressed payload of one byte or none (a stream
\* cut after its first byte: nothing to decompress, no corruption seen), a
\* declared size with no payload, or a field the Blob does not know.
PulledBlobs(datasize) ==
    IF datasize = 0
    THEN {[malformed |-> FALSE, raw_size |-> None, data |-> None]}
    ELSE {[malformed |-> TRUE, raw_size |-> None, data |-> None],
          [malformed |-> FALSE, raw_size |-> None, data |-> None]}
         \cup {[malformed |-> FALSE, raw_size |-> Some(n), data |-> None] :
                   n \in 0..MaxPayload}
         \cup {[malformed |-> FALSE, raw_size |-> None,
                 data |-> Some([variant |-> "Raw", bytes |-> bytes, input |-> NoInput])] :
                   bytes \in {b \in Payloads : Len(b) <= 1}}
         \cup {[malformed |-> FALSE, raw_size |-> None,
                 data |-> Some([variant |-> variant, bytes |-> <<>>, input |-> NoInput])] :
                   variant \in {"ZlibData", "Lz4Data", "LzmaData", "ZstdData",
                                "ObsoleteBzip2Data"}}

\* File::open of a whole file.
OpenWholeStream ==
    /\ pbf.end = "unopened"
    /\ \E input \in WholeStreams : pbf' = input
    /\ pulled' = <<>>
    /\ UNCHANGED <<denseVars, parseVars, deltaVars, tagVars, trVars>>

\* parser.parse_block(raw_block) on the RawBlock read_blob has just
\* returned: its r#type is read_blob's classification, its data the bytes
\* of the frame's blob.
ParsePulled ==
    /\ pulled # <<>>
    /\ pulled[Len(pulled)].result.kind = "Ok"
    /\ parsed[1].frame # Len(pulled)
    /\ LET k == Len(pulled)
           block == pulled[k].result.block[1]
           datasize == block.data.to - block.data.from
       IN \E blob \in PulledBlobs(datasize) :
              ParseFrame(1, [type |-> block.type, data |-> blob], k)

NextPipeline == OpenWholeStream \/ ReadBlob \/ NewParser \/ ParsePulled

(***************************************************************************)
(* DeltaValueReader                                                        *)
(***************************************************************************)

NoDeltaReader == [kind |-> "unbuilt", remaining |-> <<>>, accumulated |-> 0]

\* DeltaValueReader::new: the whole slice remaining, T::default() accumulated.
DeltaValueReader_new(slice) ==
    [kind |-> "Ok", remaining |-> slice, accumulated |-> 0]

\* slice::split_first
split_first(slice) ==
    IF slice = <<>> THEN None
    ELSE Some([first |-> Head(slice), elements |-> Tail(slice)])

\* DeltaValueReader::next: the reader after the call and the item returned.
DeltaValueReader_next_yields_delta(r) ==
    LET split == split_first(r.remaining) IN
    IF split # None
    THEN [reader |-> [r EXCEPT !.accumulated = @ + split[1].first,
                               !.remaining = split[1].elements],
          item |-> Some(split[1].first)]
    ELSE [reader |-> r, item |-> None]

DeltaValueReader_next(r) ==
    LET split == split_first(r.remaining) IN
    IF split # None
    THEN [reader |-> [r EXCEPT !.accumulated = @ + split[1].first,
                               !.remaining = split[1].elements],
          item |-> Some(r.accumulated + split[1].first)]
    ELSE [reader |-> r, item |-> None]

\* The slices it is run on: the deltas of the repository's test, in any
\* order and number up to MaxDeltas.
MaxDeltas == 4

Deltas == {10, -1, 4, -2}

DeltaInputs == SeqsUpTo(Deltas, MaxDeltas)

InitDelta ==
    /\ values = <<>>
    /\ delta_reader = NoDeltaReader
    /\ delta_values = <<>>

\* DeltaValueReader::new(&values)
DeltaNew ==
    /\ delta_reader.kind = "unbuilt"
    /\ \E slice \in DeltaInputs :
        /\ values' = slice
        /\ delta_reader' = DeltaValueReader_new(slice)
    /\ delta_values' = <<>>
    /\ UNCHANGED <<denseVars, blobVars, parseVars, tagVars, trVars>>

\* reader.next(), up to ExtraCalls calls past the end of the slice
DeltaNext ==
    /\ delta_reader.kind = "Ok"
    /\ Len(delta_values) < Len(values) + ExtraCalls
    /\ LET res == DeltaValueReader_next(delta_reader) IN
        /\ delta_reader' = res.reader
        /\ delta_values' = Append(delta_values, res.item)
    /\ UNCHANGED <<values, denseVars, blobVars, parseVars, tagVars, trVars>>

NextDelta == DeltaNew \/ DeltaNext

(***************************************************************************)
(* DenseTagReader                                                          *)
(*                                                                         *)
(* A string of the table is its bytes.  The tables are made of "k", of     *)
(* the two bytes of U+00E9 and of the byte 0xFF, which no UTF-8 text       *)
(* contains.                                                               *)
(***************************************************************************)

\* A continuation byte of a UTF-8 sequence, within lo..hi.
utf8_tail(bytes, i, lo, hi) ==
    i <= Len(bytes) /\ bytes[i] >= lo /\ bytes[i] <= hi

\* The length of the UTF-8 sequence that starts at bytes[i], 0 when none
\* does: no overlong forms, no surrogates, nothing above U+10FFFF.
utf8_width(bytes, i) ==
    LET first == bytes[i]
        second(lo, hi) == utf8_tail(bytes, i + 1, lo, hi)
        third == utf8_tail(bytes, i + 2, 128, 191)
        fourth == utf8_tail(bytes, i + 3, 128, 191)
    IN
    IF first < 128 THEN 1
    ELSE IF first >= 194 /\ first <= 223
    THEN IF second(128, 191) THEN 2 ELSE 0
    ELSE IF first = 224
    THEN IF second(160, 191) /\ third THEN 3 ELSE 0
    ELSE IF (first >= 225 /\ first <= 236) \/ first = 238 \/ first = 239
    THEN IF second(128, 191) /\ third THEN 3 ELSE 0
    ELSE IF first = 237
    THEN IF second(128, 159) /\ third THEN 3 ELSE 0
    ELSE IF first = 240
    THEN IF second(144, 191) /\ third /\ fourth THEN 4 ELSE 0
    ELSE IF first >= 241 /\ first <= 243
    THEN IF second(128, 191) /\ third /\ fourth THEN 4 ELSE 0
    ELSE IF first = 244
    THEN IF second(128, 143) /\ third /\ fourth THEN 4 ELSE 0
    ELSE 0

RECURSIVE utf8_valid_from(_, _)
utf8_valid_from(bytes, i) ==
    IF i > Len(bytes) THEN TRUE
    ELSE LET width == utf8_width(bytes, i) IN
         width > 0 /\ utf8_valid_from(bytes, i + width)

\* str::from_utf8
from_utf8(bytes) ==
    IF utf8_valid_from(bytes, 1)
    THEN [ok |-> TRUE, str |-> bytes]
    ELSE [ok |-> FALSE, str |-> <<>>]

TagOk(str) == [kind |-> "Ok", str |-> str, error |-> ""]

TagErr(error) == [kind |-> "LogicError", str |-> <<>>, error |-> error]

\* The closure decode_string of DenseTagReader::next.
decode_string_no_utf8_check(table, index) ==
    IF index < 0 THEN TagErr("string table index is invalid")
    ELSE LET bytes == Get(table, index) IN
         IF bytes = None THEN TagErr("string table index is out of bounds")
         ELSE TagOk(bytes[1])

decode_string(table, index) ==
    IF index < 0 THEN TagErr("string table index is invalid")
    ELSE LET bytes == Get(table, index) IN
         IF bytes = None THEN TagErr("string table index is out of bounds")
         ELSE IF from_utf8(bytes[1]).ok THEN TagOk(from_utf8(bytes[1]).str)
         ELSE TagErr("string is not valid UTF-8")

NoTagReader == [kind |-> "unbuilt", indices_it |-> <<>>]

\* DenseTagReader::new: indices_it = key_value_indices.chunks_exact(2),
\* kept as the indices it has not yet passed.
DenseTagReader_new(indices) == [kind |-> "Ok", indices_it |-> indices]

\* ChunksExact::next for chunks of 2: a chunk is yielded while two elements
\* are left.
chunks_exact_next(indices_it) ==
    IF Len(indices_it) < 2 THEN None
    ELSE Some([indices |-> SubSeq(indices_it, 1, 2),
               rest |-> SubSeq(indices_it, 3, Len(indices_it))])

\* DenseTagReader::next: the reader after the call and the item returned.
DenseTagReader_next(table, r) ==
    LET chunk == chunks_exact_next(r.indices_it) IN
    IF chunk # None
    THEN [reader |-> [r EXCEPT !.indices_it = chunk[1].rest],
          item |-> Some([key |-> decode_string(table, chunk[1].indices[1]),
                         value |-> decode_string(table, chunk[1].indices[2])])]
    ELSE [reader |-> r, item |-> None]

\* The tables and index slices it is run on.
MaxStrings == 2

MaxIndices == 4

Strings == {<<107>>, <<195, 169>>, <<255>>}

StringTables == SeqsUpTo(Strings, MaxStrings)

Indices == {-1, 0, 1, 2}

IndexSlices == SeqsUpTo(Indices, MaxIndices)

InitTags ==
    /\ string_table = <<>>
    /\ key_value_indices = <<>>
    /\ tag_reader = NoTagReader
    /\ dense_tags = <<>>

\* DenseTagReader::new(&string_table, &key_value_indices)
TagsNew ==
    /\ tag_reader.kind = "unbuilt"
    /\ \E table \in StringTables, indices \in IndexSlices :
        /\ string_table' = table
        /\ key_value_indices' = indices
        /\ tag_reader' = DenseTagReader_new(indices)
    /\ dense_tags' = <<>>
    /\ UNCHANGED <<denseVars, blobVars, parseVars, deltaVars, trVars>>

\* reader.next(), up to ExtraCalls calls past the last pair
TagsNext ==
    /\ tag_reader.kind = "Ok"
    /\ Len(dense_tags) < (Len(key_value_indices) \div 2) + ExtraCalls
    /\ LET res == DenseTagReader_next(string_table, tag_reader) IN
        /\ tag_reader' = res.reader
        /\ dense_tags' = Append(dense_tags, res.item)
    /\ UNCHANGED <<string_table, key_value_indices, denseVars, blobVars, parseVars,
                   deltaVars, trVars>>

NextTags == TagsNew \/ TagsNext

(***************************************************************************)
(* TagReader                                                               *)
(***************************************************************************)

NoTagReaderArgs == [key_indices |-> <<>>, value_indices |-> <<>>, string_table |-> <<>>]

NoPlainTagReader == [kind |-> "unbuilt", idx |-> 0]

\* TagReader::new
TagReader_new(key_indices, value_indices, table) == [kind |-> "Ok", idx |-> 0]

\* One slot of an item: Result<&str, Utf8Error>.
Utf8Ok(str) == [kind |-> "Ok", str |-> str]

Utf8Err == [kind |-> "Utf8Error", str |-> <<>>]

\* What next() returns: a pair, the end, or nothing at all (a panic).
PairSome(key, value) == [kind |-> "Some", key |-> key, value |-> value]

PairNone == [kind |-> "None", key |-> Utf8Err, value |-> Utf8Err]

PairPanic == [kind |-> "Panic", key |-> Utf8Err, value |-> Utf8Err]

\* str::from_utf8(string_table.s[index as usize].as_ref()); indexing the
\* table past its end panics.
index_string(table, index) ==
    IF index >= Len(table) THEN [panic |-> TRUE, slot |-> Utf8Err]
    ELSE [panic |-> FALSE,
          slot |-> IF from_utf8(table[index + 1]).ok
                   THEN Utf8Ok(from_utf8(table[index + 1]).str)
                   ELSE Utf8Err]

\* TagReader::next: the reader after the call and the item returned.  The
\* key is resolved before the value; value_indices[idx] panics when the
\* value slice is shorter than the key slice.
TagReader_next(args, r) ==
    IF r.idx < Len(args.key_indices)
    THEN LET key == index_string(args.string_table, args.key_indices[r.idx + 1]) IN
         IF key.panic THEN [reader |-> [r EXCEPT !.kind = "Panicked"], item |-> PairPanic]
         ELSE IF r.idx >= Len(args.value_indices)
         THEN [reader |-> [r EXCEPT !.kind = "Panicked"], item |-> PairPanic]
         ELSE LET value == index_string(args.string_table, args.value_indices[r.idx + 1]) IN
              IF value.panic
              THEN [reader |-> [r EXCEPT !.kind = "Panicked"], item |-> PairPanic]
              ELSE [reader |-> [r EXCEPT !.idx = @ + 1],
                    item |-> PairSome(key.slot, value.slot)]
    ELSE [reader |-> r, item |-> PairNone]

\* The slices it is run on: u32 indices into the tables of DenseTagReader.
MaxTags == 2

TagIndices == {0, 1, 2}

TagSlices == SeqsUpTo(TagIndices, MaxTags)

InitTagReader ==
    /\ tr_args = NoTagReaderArgs
    /\ tr = NoPlainTagReader
    /\ tr_tags = <<>>

\* TagReader::new(&keys, &vals, &string_table)
TagReaderNew ==
    /\ tr.kind = "unbuilt"
    /\ \E keys \in TagSlices, vals \in TagSlices, table \in StringTables :
        /\ tr_args' = [key_indices |-> keys, value_indices |-> vals,
                       string_table |-> table]
        /\ tr' = TagReader_new(keys, vals, table)
    /\ tr_tags' = <<>>
    /\ UNCHANGED <<denseVars, blobVars, parseVars, deltaVars, tagVars>>

\* reader.next(), up to ExtraCalls calls past the last pair.  A reader that
\* has panicked is gone.
TagReaderNext ==
    /\ tr.kind = "Ok"
    /\ Len(tr_tags) < Len(tr_args.key_indices) + ExtraCalls
    /\ LET res == TagReader_next(tr_args, tr) IN
        /\ tr' = res.reader
        /\ tr_tags' = Append(tr_tags, res.item)
    /\ UNCHANGED <<tr_args, denseVars, blobVars, parseVars, deltaVars, tagVars>>

NextTagReader == TagReaderNew \/ TagReaderNext

(***************************************************************************)
(* Specifications.  The components share no state, so each is explored on  *)
(* its own: the others stay in their initial state.                        *)
(***************************************************************************)

Init ==
    InitDense /\ InitBlob /\ InitParse /\ InitDelta /\ InitTags /\ InitTagReader

Next ==
    \/ NextDense \/ NextBlob \/ NextParse \/ NextTwoParsers \/ NextDelta \/ NextTags
    \/ NextTagReader \/ NextPipeline

Spec == Init /\ [][Next]_vars

SpecDense == Init /\ [][NextDense]_vars

SpecBlob == Init /\ [][NextBlob]_vars

SpecParse == Init /\ [][NextParse]_vars

SpecTwoParsers == Init /\ [][NextTwoParsers]_vars

SpecDelta == Init /\ [][NextDelta]_vars

SpecTags == Init /\ [][NextTags]_vars

SpecTagReader == Init /\ [][NextTagReader]_vars

SpecPipeline == Init /\ [][NextPipeline]_vars

(***************************************************************************)
(* DenseNodeReader: properties                                             *)
(***************************************************************************)

\* The node yielded by the k-th call.
NodeAt(k) == yielded[k].node[1]

\* No call up to the k-th has failed (with an error or a panic).
NoFailureUpTo(k) == \A i \in 1..k : yielded[i].kind \in {"Ok", "None"}

\* The running sum a delta array gives its k-th node, None past its end.
RunningSum(s, k) == IF k <= Len(s) THEN Some(SumTo(s, k)) ELSE None

WideRunningSum(s, k) == IF k <= Len(s) THEN Some(WideSumTo(s, k)) ELSE None

\* keys_vals cut at its zeros: the runs of the group, in order.
RECURSIVE RunsOf(_)
RunsOf(kv) ==
    IF kv = <<>> THEN <<>>
    ELSE IF \A i \in 1..Len(kv) : kv[i] # 0 THEN <<kv>>
    ELSE LET z == CHOOSE i \in 1..Len(kv) :
                      kv[i] = 0 /\ \A j \in 1..(i - 1) : kv[j] # 0
         IN <<SubSeq(kv, 1, z - 1)>> \o RunsOf(SubSeq(kv, z + 1, Len(kv)))

\* keys_vals is made of zero-terminated runs of (key, value) pairs.
WellFormedKv(kv) ==
    kv # <<>> =>
        /\ kv[Len(kv)] = 0
        /\ \A i \in 1..Len(RunsOf(kv)) : Len(RunsOf(kv)[i]) % 2 = 0

\* The user_sid accumulator before the k-th call: the user_sid of the last
\* node yielded before it, zero when there is none.
RECURSIVE PrevSid(_)
PrevSid(k) ==
    IF k <= 1 THEN Wide(0)
    ELSE IF /\ yielded[k - 1].kind = "Ok"
            /\ NodeAt(k - 1).info # None
            /\ NodeAt(k - 1).info[1].user_sid # None
         THEN NodeAt(k - 1).info[1].user_sid[1]
         ELSE PrevSid(k - 1)

\* C3 (as claimed): a user_sid error at call i leaves every later node j as
\* if call i had not failed: id, lat, lon, timestamp, changeset and uid are
\* the sums of their deltas 1..j and the tag slice is the j-th run.
C3_LaterNodesUnaffected ==
    \A i, j \in 1..Len(yielded) :
        (i < j /\ yielded[i].kind = "LogicError" /\ yielded[j].kind = "Ok") =>
            LET node == NodeAt(j)
                di == data.denseinfo[1]
                info == NodeAt(j).info[1]
                kv == data.keys_vals
            IN /\ node.id = SumTo(data.id, j)
               /\ node.lat = SumTo(data.lat, j)
               /\ node.lon = SumTo(data.lon, j)
               /\ info.timestamp = RunningSum(di.timestamp, j)
               /\ info.changeset = RunningSum(di.changeset, j)
               /\ info.uid = RunningSum(di.uid, j)
               /\ (kv # <<>> /\ WellFormedKv(kv) /\ j <= Len(RunsOf(kv))) =>
                      node.key_value_indices = RunsOf(kv)[j]

\* C4 (as claimed): the tag cursor never passes the end of keys_vals and no
\* call to next() panics on an out-of-range slice.
C4_TagCursorWithinArray ==
    /\ reader.key_value_idx <= Len(data.keys_vals)
    /\ reader.kind # "Panicked"

\* C7: over a keys_vals array of zero-terminated runs, with no call failing,
\* the k-th node's key_value_indices is the k-th run without its zero; over
\* an empty keys_vals every node's slice is empty.
C7_SliceIsKthRun ==
    \A k \in 1..Len(yielded) :
        (WellFormedKv(data.keys_vals) /\ NoFailureUpTo(k) /\ yielded[k].kind = "Ok") =>
            /\ data.keys_vals = <<>> => NodeAt(k).key_value_indices = <<>>
            /\ k <= Len(RunsOf(data.keys_vals)) =>
                   NodeAt(k).key_value_indices = RunsOf(data.keys_vals)[k]

\* Three nodes over the runs [1, 2], [] and [2, 1].
C7_Witness ==
    /\ data.keys_vals = <<1, 2, 0, 0, 2, 1, 0>>
    /\ Len(yielded) >= 3
    /\ NoFailureUpTo(3)
    /\ yielded[3].kind = "Ok"
    /\ NodeAt(1).key_value_indices = <<1, 2>>
    /\ NodeAt(2).key_value_indices = <<>>
    /\ NodeAt(3).key_value_indices = <<2, 1>>

\* No sum of the first user_sid deltas of the group is negative.
NoUserSidUnderflow ==
    data.denseinfo # None =>
        \A i \in 1..Len(data.denseinfo[1].user_sid) :
            WideSumTo(data.denseinfo[1].user_sid, i).hi >= 0

\* C8 (as claimed): a reader over a group of n nodes with no user_sid
\* underflow yields n nodes and then the end; the k-th node carries the sums
\* of the id, lat and lon deltas 1..k and, when metadata is present, the
\* sums of the timestamp, changeset, uid and user_sid deltas, with version
\* and visible copied from position k.
C8_NodesAreRunningSums ==
    NoUserSidUnderflow =>
        \A k \in 1..Len(yielded) :
            IF k <= Len(data.id)
            THEN /\ yielded[k].kind = "Ok"
                 /\ NodeAt(k).id = SumTo(data.id, k)
                 /\ NodeAt(k).lat = SumTo(data.lat, k)
                 /\ NodeAt(k).lon = SumTo(data.lon, k)
                 /\ IF data.denseinfo = None THEN NodeAt(k).info = None
                    ELSE LET di == data.denseinfo[1]
                             info == NodeAt(k).info[1]
                         IN /\ NodeAt(k).info # None
                            /\ info.timestamp = RunningSum(di.timestamp, k)
                            /\ info.changeset = RunningSum(di.changeset, k)
                            /\ info.uid = RunningSum(di.uid, k)
                            /\ info.user_sid = WideRunningSum(di.user_sid, k)
                            /\ info.version = Get(di.version, k - 1)
                            /\ info.visible = Get(di.visible, k - 1)
            ELSE yielded[k].kind = "None"

\* C9: a call that fails on user_sid fails alone: it is a call on a node of
\* the group, it leaves the reader usable with the user_sid accumulator at
\* its value from before the call, and the following call is the end only
\* if the group is exhausted; otherwise (unless the tag cursor panics) it
\* yields a node whose user_sid continues from that value, or fails on its
\* own user_sid delta.
C9_UserSidErrorScopedToStep ==
    \A k \in 1..Len(yielded) :
        yielded[k].kind = "LogicError" =>
            /\ k <= Len(data.id)
            /\ k = Len(yielded) =>
                   /\ reader.kind = "Ok"
                   /\ reader.data_idx = k
                   /\ reader.current.user_sid = PrevSid(k)
            /\ (k < Len(yielded) /\ yielded[k + 1].kind # "Panic") =>
                   IF k = Len(data.id) THEN yielded[k + 1].kind = "None"
                   ELSE LET delta == Get(data.denseinfo[1].user_sid, k) IN
                        IF delta = None
                        THEN /\ yielded[k + 1].kind = "Ok"
                             /\ NodeAt(k + 1).info[1].user_sid = None
                        ELSE LET sum == WideAdd(PrevSid(k), delta[1]) IN
                             IF sum.hi \in {0, 1}
                             THEN /\ yielded[k + 1].kind = "Ok"
                                  /\ NodeAt(k + 1).info[1].user_sid = Some(sum)
                             ELSE yielded[k + 1].kind = "LogicError"

\* user_sid deltas 1, -2, 1: a node, the error, a node with user_sid 2.
C9_Witness ==
    /\ Len(yielded) >= 3
    /\ data.denseinfo # None
    /\ Len(data.denseinfo[1].user_sid) >= 3
    /\ SubSeq(data.denseinfo[1].user_sid, 1, 3) = <<1, -2, 1>>
    /\ yielded[1].kind = "Ok"
    /\ yielded[2].kind = "LogicError"
    /\ yielded[3].kind = "Ok"
    /\ NodeAt(3).info[1].user_sid = Some(Wide(2))

\* C10: DenseNodeReader::new fails with a LogicError exactly when the id,
\* lat and lon arrays are not all of one length, and then nothing is ever
\* decoded: no call to next() happens on a group of mismatched lengths.
C10_LengthCheckedAtConstruction ==
    reader.kind # "unbuilt" =>
        /\ reader.kind = "LogicError" <=>
               ~(Len(data.lat) = Len(data.id) /\ Len(data.lon) = Len(data.id))
        /\ reader.kind = "LogicError" => yielded = <<>>
        /\ yielded # <<>> =>
               (Len(data.lat) = Len(data.id) /\ Len(data.lon) = Len(data.id))

\* Lengths 0/0/1, as in the test invalid_required_data_lengths.
C10_Witness ==
    /\ reader.kind = "LogicError"
    /\ Len(data.id) = 0 /\ Len(data.lat) = 0 /\ Len(data.lon) = 1

\* The user_sid delta of the k-th node, None when there is none.
SidDeltaAt(k) ==
    IF data.denseinfo = None THEN None ELSE Get(data.denseinfo[1].user_sid, k - 1)

\* C19 (as claimed): a call fails on user_sid exactly when the accumulator
\* plus the node's delta is negative; every total that is not negative is
\* the user_sid of the node yielded.
C19_ErrorOnlyWhenNegative ==
    \A k \in 1..Len(yielded) :
        (k <= Len(data.id) /\ SidDeltaAt(k) # None) =>
            LET sum == WideAdd(PrevSid(k), SidDeltaAt(k)[1]) IN
            /\ yielded[k].kind = "LogicError" <=> sum.hi < 0
            /\ (sum.hi >= 0 /\ yielded[k].kind # "Panic") =>
                   /\ yielded[k].kind = "Ok"
                   /\ NodeAt(k).info[1].user_sid = Some(sum)

\* C19 (amended): a call fails on user_sid exactly when the accumulator plus
\* the node's delta is negative or above u32::MAX (4294967295); otherwise
\* the total, up to u32::MAX, is the user_sid of the node the call yields.
\* A call on a node with no user_sid delta never fails.
C19_ErrorWhenOutsideU32 ==
    \A k \in 1..Len(yielded) :
        /\ (k <= Len(data.id) /\ SidDeltaAt(k) # None) =>
            LET sum == WideAdd(PrevSid(k), SidDeltaAt(k)[1]) IN
            /\ yielded[k].kind = "LogicError" <=> (sum.hi < 0 \/ sum.hi > 1)
            /\ yielded[k].kind = "Ok" =>
                   /\ NodeAt(k).info # None
                   /\ NodeAt(k).info[1].user_sid = Some(sum)
        /\ (k > Len(data.id) \/ SidDeltaAt(k) = None) => yielded[k].kind # "LogicError"

\* user_sid deltas i32::MAX three times: 2147483647, 4294967294, the error.
C19_Witness ==
    /\ Len(yielded) >= 3
    /\ data.denseinfo # None
    /\ data.denseinfo[1].user_sid = <<I32Max, I32Max, I32Max>>
    /\ yielded[1].kind = "Ok"
    /\ yielded[2].kind = "Ok"
    /\ NodeAt(2).info[1].user_sid = Some([hi |-> 1, lo |-> I32Max - 1])
    /\ yielded[3].kind = "LogicError"

\* The optional fields of pbf::Info, each with an array of its own.
InfoFields == {"version", "timestamp", "changeset", "uid", "user_sid", "visible"}

\* C21: in a group with metadata, a node at or past the end of a metadata
\* array has None in that field and a value in every field whose array
\* reaches it; a missing user_sid delta is never an error, and the call
\* yields the node (unless it panics on the tag cursor).
C21_ShortMetadataIsNone ==
    \A k \in 1..Len(yielded) :
        (k <= Len(data.id) /\ data.denseinfo # None) =>
            /\ SidDeltaAt(k) = None => yielded[k].kind # "LogicError"
            /\ (SidDeltaAt(k) = None /\ yielded[k].kind # "Panic") => yielded[k].kind = "Ok"
            /\ yielded[k].kind = "Ok" =>
                   /\ NodeAt(k).info # None
                   /\ NodeAt(k).id = SumTo(data.id, k)
                   /\ \A f \in InfoFields :
                          NodeAt(k).info[1][f] = None <=> k > Len(data.denseinfo[1][f])
                   /\ NodeAt(k).info[1].version = Get(data.denseinfo[1].version, k - 1)
                   /\ NodeAt(k).info[1].visible = Get(data.denseinfo[1].visible, k - 1)

\* Three nodes, the timestamp array one short and no user_sid or uid at all.
C21_Witness ==
    /\ Len(data.id) = 3
    /\ data.denseinfo # None
    /\ Len(data.denseinfo[1].timestamp) = 2
    /\ Len(data.denseinfo[1].user_sid) = 0
    /\ Len(data.denseinfo[1].uid) = 0
    /\ Len(data.denseinfo[1].version) = 3
    /\ Len(yielded) >= 3
    /\ yielded[3].kind = "Ok"
    /\ NodeAt(3).info[1].timestamp = None
    /\ NodeAt(3).info[1].user_sid = None
    /\ NodeAt(3).info[1].uid = None
    /\ NodeAt(3).info[1].version = Some(6)
    /\ NodeAt(2).info[1].timestamp = Some(3)

(***************************************************************************)
(* read_blob: properties                                                   *)
(***************************************************************************)

\* The frame the k-th call started on, and its header length.
FrameAt(k) == pbf.frames[pulled[k].frame]

HeaderSizeAt(k) == i32_from_be_bytes(FrameAt(k).size)

HeaderAt(k) == IF HeaderSizeAt(k) = 0 THEN BlobHeader_default ELSE FrameAt(k).header

\* The k-th call read a complete length prefix.
PrefixRead(k) == pulled[k].at + 4 <= pbf.len

\* The stream ends after the prefix and before the last header byte.
HeaderTruncated(k) ==
    /\ PrefixRead(k)
    /\ HeaderSizeAt(k) >= 0 /\ HeaderSizeAt(k) < 65536
    /\ pbf.len < pulled[k].at + 4 + HeaderSizeAt(k)

\* The stream ends after the header and before the last payload byte.
PayloadTruncated(k) ==
    /\ PrefixRead(k)
    /\ HeaderSizeAt(k) >= 0 /\ HeaderSizeAt(k) < 65536
    /\ pbf.len >= pulled[k].at + 4 + HeaderSizeAt(k)
    /\ ~HeaderAt(k).malformed
    /\ HeaderAt(k).datasize >= 0 /\ HeaderAt(k).datasize < 33554432
    /\ pbf.len < pulled[k].at + 4 + HeaderSizeAt(k) + HeaderAt(k).datasize

\* C2 (as claimed): read_blob returns "no more frames" only when no byte
\* was left in the stream when it was called.
C2_NoneOnlyAtCleanEnd ==
    \A k \in 1..Len(pulled) :
        pulled[k].result.kind = "None" => pulled[k].at = pbf.len

\* C6: when the stream ends, or the read fails, after the whole length
\* prefix and before the last header byte or the last payload byte,
\* read_blob returns an IoError with the cause, and no block.
C6_TruncatedFrameIsIoError ==
    \A k \in 1..Len(pulled) :
        (HeaderTruncated(k) \/ PayloadTruncated(k)) =>
            /\ pulled[k].result.kind = "IoError"
            /\ pulled[k].result.block = <<>>
            /\ pulled[k].result.error =
                   (IF pbf.end = "eof" THEN "UnexpectedEof" ELSE "Other")

\* A second frame whose payload is cut short by the end of the stream.
C6_Witness ==
    /\ Len(pulled) >= 2
    /\ pbf.end = "eof"
    /\ pulled[1].result.kind = "Ok"
    /\ PayloadTruncated(2)
    /\ pbf.len > pulled[2].at + 4 + HeaderSizeAt(2)
    /\ pulled[2].result.kind = "IoError"

\* The position of the stream when the k-th call returned.
PosAfter(k) == IF k < Len(pulled) THEN pulled[k + 1].at ELSE pbf.pos

\* The k-th call read the whole header of its frame and decoded it.
HeaderDecoded(k) ==
    /\ PrefixRead(k)
    /\ HeaderSizeAt(k) >= 0 /\ HeaderSizeAt(k) < 65536
    /\ pbf.len >= pulled[k].at + 4 + HeaderSizeAt(k)
    /\ ~HeaderAt(k).malformed

\* C11: a call that has read a length prefix N returns InvalidBlobHeader
\* exactly when N < 0 or N >= 65536, with the stream left right after the
\* prefix: no header byte has been read.  No other call returns it.
C11_HeaderSizeRange ==
    \A k \in 1..Len(pulled) :
        /\ pulled[k].result.kind = "InvalidBlobHeader" => PrefixRead(k)
        /\ PrefixRead(k) =>
            /\ pulled[k].result.kind = "InvalidBlobHeader" <=>
                   (HeaderSizeAt(k) < 0 \/ HeaderSizeAt(k) >= 65536)
            /\ pulled[k].result.kind = "InvalidBlobHeader" =>
                   PosAfter(k) = pulled[k].at + 4

\* A frame of header length 65536 after a frame that was read.
C11_Witness ==
    /\ Len(pulled) = 2
    /\ pulled[1].result.kind = "Ok"
    /\ PrefixRead(2)
    /\ HeaderSizeAt(2) = 65536
    /\ pulled[2].result.kind = "InvalidBlobHeader"

\* C12: a call that has decoded a header returns InvalidBlobData exactly
\* when the header's datasize is < 0 or >= 33554432, with the stream left
\* right after the header: no payload byte has been read.  No other call
\* returns it.
C12_BlobSizeRange ==
    \A k \in 1..Len(pulled) :
        /\ pulled[k].result.kind = "InvalidBlobData" => HeaderDecoded(k)
        /\ HeaderDecoded(k) =>
            /\ pulled[k].result.kind = "InvalidBlobData" <=>
                   (HeaderAt(k).datasize < 0 \/ HeaderAt(k).datasize >= 33554432)
            /\ pulled[k].result.kind = "InvalidBlobData" =>
                   PosAfter(k) = pulled[k].at + 4 + HeaderSizeAt(k)

\* A header of datasize 33554432 after a frame that was read.
C12_Witness ==
    /\ Len(pulled) = 2
    /\ pulled[1].result.kind = "Ok"
    /\ HeaderDecoded(2)
    /\ HeaderAt(2).datasize = 33554432
    /\ pulled[2].result.kind = "InvalidBlobData"

\* The length of a frame: prefix, header and payload.
FrameLen(frame) ==
    LET n == i32_from_be_bytes(frame.size)
    IN 4 + n + (IF n = 0 THEN 0 ELSE frame.header.datasize)

\* The offset in the stream of frame k, the frames before it being whole.
RECURSIVE Offset(_, _)
Offset(frames, k) == IF k <= 1 THEN 0 ELSE Offset(frames, k - 1) + FrameLen(frames[k - 1])

\* The stream is made of well-formed frames and ends after the last.
WellFormedStream ==
    /\ pbf.end = "eof"
    /\ \A i \in 1..Len(pbf.frames) :
        LET n == i32_from_be_bytes(pbf.frames[i].size)
            header == pbf.frames[i].header
        IN /\ n >= 0 /\ n < 65536
           /\ n > 0 => (/\ ~header.malformed
                        /\ header.datasize >= 0 /\ header.datasize < 33554432)
    /\ pbf.len = Offset(pbf.frames, Len(pbf.frames) + 1)

\* C16: over a stream of well-formed frames the k-th call returns frame k:
\* it starts at the frame's length prefix, returns the block of the header's
\* type with the datasize bytes that follow the header, and leaves the
\* stream at the next frame; the calls after the last frame return None.
C16_FramesInOrder ==
    WellFormedStream =>
        \A k \in 1..Len(pulled) :
            IF k <= Len(pbf.frames)
            THEN /\ pulled[k].frame = k
                 /\ pulled[k].at = Offset(pbf.frames, k)
                 /\ pulled[k].result.kind = "Ok"
                 /\ pulled[k].result.block[1].type = BlockType_from(HeaderAt(k).type)
                 /\ pulled[k].result.block[1].data.from =
                        pulled[k].at + 4 + HeaderSizeAt(k)
                 /\ pulled[k].result.block[1].data.to =
                        pulled[k].at + 4 + HeaderSizeAt(k) + HeaderAt(k).datasize
                 /\ PosAfter(k) = Offset(pbf.frames, k + 1)
            ELSE /\ pulled[k].result.kind = "None"
                 /\ pulled[k].at = pbf.len

\* Two frames with payloads, read, and the end of the stream after them.
C16_Witness ==
    /\ WellFormedStream
    /\ Len(pbf.frames) = 2
    /\ Len(pulled) = 3
    /\ HeaderSizeAt(1) = 2 /\ pbf.frames[1].header.datasize = 3
    /\ HeaderSizeAt(2) = 2 /\ pbf.frames[2].header.datasize = 3
    /\ pulled[1].result.kind = "Ok"
    /\ pulled[2].result.kind = "Ok"
    /\ pulled[2].result.block[1].data = [from |-> 15, to |-> 18]
    /\ pulled[3].result.kind = "None"

(***************************************************************************)
(* BlockParser: properties                                                 *)
(***************************************************************************)

\* The last call of parser p decoded a blob with a raw payload and reached
\* the dispatch on the payload variant.
RawDispatched(p) ==
    /\ parsed[p].calls > 0
    /\ ~parsed[p].raw_block.data.malformed
    /\ parsed[p].raw_block.data.data # None
    /\ parsed[p].raw_block.data.data[1].variant = "Raw"
    /\ parsed[p].result.kind # "Panic"

\* C1 (as claimed): after parse_block on a frame with raw payload R the
\* buffer is exactly R, with or without a declared uncompressed size and
\* whatever the buffer held before.
C1_RawPayloadIsTheBuffer ==
    \A p \in Parsers :
        RawDispatched(p) => block_buffer[p] = parsed[p].raw_block.data.data[1].bytes

\* C5 (as claimed): two parsers with the same decompressor that have last
\* decoded the same frame, after whatever frames each decoded before,
\* returned equal results.
C5_SameFrameSameResult ==
    (/\ parsed[1].calls > 0
     /\ parsed[2].calls > 0
     /\ parsed[1].raw_block = parsed[2].raw_block)
        => parsed[1].result = parsed[2].result

\* The last call of parser p decoded the bytes of its RawBlock as a blob.
BlobDecoded(p) == parsed[p].calls > 0 /\ ~parsed[p].raw_block.data.malformed

\* The payload variant of that blob, "none" when it has no payload.
VariantOf(p) ==
    IF parsed[p].raw_block.data.data = None THEN "none"
    ELSE parsed[p].raw_block.data.data[1].variant

\* C14 (as claimed): DefaultDecompressor::decompress with Zlib returns Ok
\* only when the decompressed data has exactly the length of the output
\* buffer and the buffer holds all of it; when the data is shorter than the
\* buffer it returns InternalError with the cause.
C14_DecompressFillsExactlyOrFails ==
    \A p \in Parsers :
        (/\ parsed[p].call # NoCall
         /\ decompressor = "DefaultDecompressor"
         /\ parsed[p].call[1].method = "Zlib") =>
            LET c == parsed[p].call[1] IN
            /\ c.ok => /\ Len(c.input.plain) = c.output_len
                       /\ block_buffer[p] = c.input.plain
            /\ Len(c.input.plain) < c.output_len =>
                   /\ ~c.ok
                   /\ c.error \in {"InternalError(UnexpectedEof)", "InternalError(Corrupt)"}

\* C15 (as claimed): a blob whose payload is the obsolete bzip2 variant, or
\* that has no payload, gives InvalidBlobData under every decompressor, and
\* the decompressor is not called.
C15_ObsoleteIsInvalidBlobData ==
    \A p \in Parsers :
        (BlobDecoded(p) /\ VariantOf(p) \in {"ObsoleteBzip2Data", "none"}) =>
            /\ parsed[p].result = ParseErr("InvalidBlobData", "")
            /\ parsed[p].call = NoCall

\* C18: for an Lz4, Lzma or Zstd payload, and for a Zlib payload when the
\* default feature is off, parse_block returns no block; the decompressor,
\* called, returns UnsupportedCompression, which parse_block returns as a
\* DecompressionError; it is called whenever the declared size is absent
\* or not negative.  With the feature on, Zlib is never unsupported.
C18_OnlyZlibSupported ==
    \A p \in Parsers :
        /\ (/\ BlobDecoded(p)
            /\ \/ VariantOf(p) \in {"Lz4Data", "LzmaData", "ZstdData"}
               \/ (VariantOf(p) = "ZlibData" /\ decompressor = "DefaultDecompressorNoFeature")) =>
               /\ parsed[p].result.kind \notin {"Header", "Primitive", "Unknown"}
               /\ parsed[p].result.content = <<>>
               /\ parsed[p].call # NoCall =>
                      /\ ~parsed[p].call[1].ok
                      /\ parsed[p].call[1].error = "UnsupportedCompression"
                      /\ parsed[p].result.kind = "DecompressionError"
                      /\ parsed[p].result.error = "UnsupportedCompression"
               /\ (\/ parsed[p].raw_block.data.raw_size = None
                   \/ parsed[p].raw_block.data.raw_size[1] >= 0) =>
                      parsed[p].call # NoCall
        /\ (/\ parsed[p].call # NoCall
            /\ decompressor = "DefaultDecompressor"
            /\ VariantOf(p) = "ZlibData") =>
               parsed[p].call[1].error # "UnsupportedCompression"

\* An Lz4 payload given to the default decompressor with its feature on.
C18_Witness ==
    /\ decompressor = "DefaultDecompressor"
    /\ BlobDecoded(1)
    /\ VariantOf(1) = "Lz4Data"
    /\ parsed[1].raw_block.data.raw_size = Some(1)
    /\ parsed[1].call # NoCall
    /\ parsed[1].result = ParseErr("DecompressionError", "UnsupportedCompression")

\* C20: for a blob that declares an uncompressed size S and carries a
\* compressed payload of one of the four methods, the decompressor is called
\* (S not negative) with an output buffer of length S, whatever the length
\* of the buffer before the call, and with the method of the variant.
C20_DecompressorGetsDeclaredSize ==
    \A p \in Parsers :
        (/\ BlobDecoded(p)
         /\ parsed[p].raw_block.data.raw_size # None
         /\ VariantOf(p) \in {"ZlibData", "Lz4Data", "LzmaData", "ZstdData"}) =>
            LET S == parsed[p].raw_block.data.raw_size[1] IN
            /\ S >= 0 => parsed[p].call # NoCall
            /\ parsed[p].call # NoCall =>
                   /\ parsed[p].call[1].output_len = S
                   /\ <<VariantOf(p), parsed[p].call[1].method>> \in
                          {<<"ZlibData", "Zlib">>, <<"Lz4Data", "Lz4">>,
                           <<"LzmaData", "Lzma">>, <<"ZstdData", "Zstd">>}

\* A buffer of two bytes shrunk to the declared size 1 for a Zlib payload.
C20_Witness ==
    /\ BlobDecoded(1)
    /\ VariantOf(1) = "ZlibData"
    /\ parsed[1].raw_block.data.raw_size = Some(1)
    /\ parsed[1].buffer_len = 2
    /\ parsed[1].call # NoCall
    /\ parsed[1].call[1].output_len = 1
    /\ Len(block_buffer[1]) = 1

\* C23 (as claimed): for a blob whose declared uncompressed size is
\* negative parse_block returns an Err and the buffer keeps its length.
C23_NegativeSizeIsErr ==
    \A p \in Parsers :
        (/\ BlobDecoded(p)
         /\ parsed[p].raw_block.data.raw_size # None
         /\ parsed[p].raw_block.data.raw_size[1] < 0) =>
            /\ parsed[p].result.kind \in
                   {"PbfParseError", "InvalidBlobData", "DecompressionError"}
            /\ Len(block_buffer[p]) = parsed[p].buffer_len

(***************************************************************************)
(* read_blob and parse_block together: properties                          *)
(***************************************************************************)

\* The header type string of the frame the parser's block was pulled from.
TypeStringOf(p) == HeaderAt(parsed[p].frame).type

\* The block variant the spec gives a header type string.
VariantFor(type) ==
    IF type = "OSMHeader" THEN "Header"
    ELSE IF type = "OSMData" THEN "Primitive"
    ELSE "Unknown"

\* parse_block reached its last match: the blob decoded, the buffer was
\* populated from a raw payload or by a decompression that succeeded.
Populated(p) ==
    /\ BlobDecoded(p)
    /\ parsed[p].result.kind # "Panic"
    /\ \/ VariantOf(p) = "Raw"
       \/ parsed[p].call # NoCall /\ parsed[p].call[1].ok

\* C24: the block parse_block returns for a frame read_blob pulled has the
\* variant of the frame's header type string: a block is returned only once
\* the buffer is populated, and then "OSMHeader" gives a Header block or the
\* error of its decoding, "OSMData" a Primitive block or the error of its
\* decoding, and any other string an Unknown block that carries exactly the
\* buffer's bytes.
C24_VariantFollowsTypeString ==
    \A p \in Parsers :
        parsed[p].frame > 0 =>
            LET variant == VariantFor(TypeStringOf(p))
                result == parsed[p].result
            IN /\ result.kind \in {"Header", "Primitive", "Unknown"} =>
                      Populated(p) /\ result.kind = variant
               /\ Populated(p) =>
                      IF variant = "Unknown"
                      THEN result = ParseOk("Unknown", block_buffer[p])
                      ELSE result.kind \in {variant, "PbfParseError"}

\* C24 (witness): the second frame of a stream, of type "OSMData" after an
\* "OSMHeader" frame, is pulled and its empty raw payload parsed into the
\* Primitive block of no bytes.
C24_Witness ==
    /\ Len(pulled) = 2
    /\ parsed[1].frame = 2
    /\ HeaderAt(1).type = "OSMHeader"
    /\ TypeStringOf(1) = "OSMData"
    /\ Populated(1)
    /\ VariantOf(1) = "Raw"
    /\ parsed[1].result = ParseOk("Primitive", <<>>)

(***************************************************************************)
(* DeltaValueReader: properties                                            *)
(***************************************************************************)

\* C13: the i-th call on a slice of n deltas returns the sum of the first i
\* deltas for i <= n and the end for every i > n; the reader has then
\* passed min(i, n) deltas and holds their sum.
C13_RunningSumsThenEnd ==
    delta_reader.kind = "Ok" =>
        /\ \A i \in 1..Len(delta_values) :
            IF i <= Len(values)
            THEN delta_values[i] = Some(SumTo(values, i))
            ELSE delta_values[i] = None
        /\ LET passed == IF Len(delta_values) <= Len(values)
                         THEN Len(delta_values) ELSE Len(values)
           IN /\ Len(delta_reader.remaining) = Len(values) - passed
              /\ delta_reader.accumulated = SumTo(values, passed)

\* The slice of the test valid_input, read to its end and past it.
C13_Witness ==
    /\ values = <<10, -1, 4, -2>>
    /\ delta_values = <<Some(10), Some(9), Some(13), Some(11), None, None>>

(***************************************************************************)
(* DenseTagReader: properties                                              *)
(***************************************************************************)

\* What an index names in the string table: the text, or no text.
Named(index) ==
    IF /\ index >= 0 /\ index < Len(string_table)
       /\ \A i \in 1..Len(string_table[index + 1]) : string_table[index + 1][i] # 255
    THEN Some(string_table[index + 1])
    ELSE None

\* The slot decoded from an index is the text it names, or an error.
SlotIs(slot, index) ==
    IF Named(index) # None
    THEN slot.kind = "Ok" /\ slot.str = Named(index)[1]
    ELSE slot.kind = "LogicError"

\* C17: over a slice of indices the k-th call returns the pair decoded from
\* the indices 2k-1 and 2k, each slot on its own: the text the index names,
\* or an error when the index is negative, outside the table or names a
\* string that is not text; the calls after the last pair return the end.
C17_PairsWithPerSlotErrors ==
    \A k \in 1..Len(dense_tags) :
        IF k <= Len(key_value_indices) \div 2
        THEN /\ dense_tags[k] # None
             /\ SlotIs(dense_tags[k][1].key, key_value_indices[2 * k - 1])
             /\ SlotIs(dense_tags[k][1].value, key_value_indices[2 * k])
        ELSE dense_tags[k] = None

\* Indices [2, 0, 0, 1] over the table ["k", 0xFF]: an index outside the
\* table and a string that is not text, each with a good other slot, and
\* then the end.
C17_Witness ==
    /\ string_table = <<<<107>>, <<255>>>>
    /\ key_value_indices = <<2, 0, 0, 1>>
    /\ Len(dense_tags) = 3
    /\ dense_tags[1][1].key.kind = "LogicError"
    /\ dense_tags[1][1].value = TagOk(<<107>>)
    /\ dense_tags[2][1].key = TagOk(<<107>>)
    /\ dense_tags[2][1].value.kind = "LogicError"
    /\ dense_tags[3] = None

(***************************************************************************)
(* TagReader: properties                                                   *)
(***************************************************************************)

\* What a u32 index names in the table of the TagReader: the text, or none.
NamedIn(table, index) ==
    IF /\ index < Len(table)
       /\ \A i \in 1..Len(table[index + 1]) : table[index + 1][i] # 255
    THEN Some(table[index + 1])
    ELSE None

\* C22 (as claimed): over key and value slices of one length n the i-th call
\* returns the pair resolved from keys[i] and vals[i], each slot the text
\* its index names or an error of its own, for an index outside the table
\* as for a string that is not text; the calls after the n-th return the
\* end, and no call aborts the iteration.
C22_PairsWithPerItemErrors ==
    Len(tr_args.key_indices) = Len(tr_args.value_indices) =>
        /\ tr.kind # "Panicked"
        /\ \A i \in 1..Len(tr_tags) :
            IF i <= Len(tr_args.key_indices)
            THEN /\ tr_tags[i].kind = "Some"
                 /\ LET key == NamedIn(tr_args.string_table, tr_args.key_indices[i])
                        value == NamedIn(tr_args.string_table, tr_args.value_indices[i])
                    IN /\ tr_tags[i].key =
                              (IF key # None THEN Utf8Ok(key[1]) ELSE Utf8Err)
                       /\ tr_tags[i].value =
                              (IF value # None THEN Utf8Ok(value[1]) ELSE Utf8Err)
            ELSE tr_tags[i] = PairNone

====
